---- MODULE Spec2Model ----
(***************************************************************************)
(* Model of dpc-client/ui/src-tauri/src/audio_recorder.rs: the recording   *)
(* session controller (start_recording / stop_recording /                  *)
(* get_recording_status), the encoder thread with its WavWriter, the       *)
(* resampler worker and the cpal capture callback.                         *)
(*                                                                         *)
(* Sample values are not represented: buffers are sample counts and frames *)
(* carry the sequence number the resampler gave them.  Control flow in the *)
(* source depends on lengths only, never on sample values.                 *)
(***************************************************************************)
EXTENDS Integers, Sequences, FiniteSets, TLC

(* ---- program constants ------------------------------------------------ *)
TELEGRAM_SAMPLE_RATE == 48000
TELEGRAM_CHANNELS == 1
FRAME_SIZE_MS == 20
FRAME_SIZE_SAMPLES == (TELEGRAM_SAMPLE_RATE * FRAME_SIZE_MS) \div 1000
\* BufWriter::with_capacity(64 * 1024, file)
BufCapacity == 64 * 1024
\* bytes written by WavWriter::new: RIFF,size,WAVE,fmt ,16,fmt,ch,rate,byte
\* rate,align,bits,data,size
WavHeaderLen == 4 + 4 + 4 + 4 + 4 + 2 + 2 + 4 + 4 + 2 + 2 + 4 + 4
\* offset of the RIFF size field relative to the data size: data_size + 36
RiffExtra == 36
\* stop_recording rejects files shorter than this
MinFileLen == 100

(* ---- bounds ----------------------------------------------------------- *)
\* encoder threads ever spawned (start() calls that get past the device checks)
MaxSessions == 2
\* control-surface calls (start/stop/status) issued in a run
MaxCalls == 3
\* capture callback invocations in a run
MaxBlocks == 2
\* capture callback invocations in a run of one long session
LongBlocks == 26
\* messages waiting in a channel (mpsc channels are unbounded)
MaxQueue == 1
\* largest max_duration_seconds passed to start()
MaxDuration == 1
\* seconds the wall clock advances during a run
MaxClock == 1
\* mono samples delivered by one capture callback
BlockSamples == 1920
\* samples in one block given to the resampler run on its own
MaxBenchBlock == 4
\* samples given to the resampler run on its own, in all
MaxBenchInput == 8

\* what a run may spend: either several short sessions, or one session fewer
\* and one call fewer with a long recording
Budgets ==
  {[calls |-> MaxCalls, sessions |-> MaxSessions, blocks |-> MaxBlocks],
   [calls |-> MaxCalls - 1, sessions |-> MaxSessions - 1, blocks |-> LongBlocks]}

Sessions == 1..MaxSessions
\* output paths: output_dir/voice_<unix seconds>.wav, one per clock value
Paths == 0..MaxClock
\* native sample formats a device may report
Formats == {"I16", "F32", "Other"}
\* native sample rates a device may report
DeviceRates == {48000}
\* native sample rates of the resampler run on its own
BenchRates == {TELEGRAM_SAMPLE_RATE \div 2, TELEGRAM_SAMPLE_RATE, TELEGRAM_SAMPLE_RATE * 2}
\* sample values of the resampler run on its own
BenchValues == {-3, 5}

VARIABLES
  state,       \* RecordingState behind the global mutex
  lock,        \* "free", or "start" while start_recording holds the mutex
  startCtx,    \* locals of the start_recording call in progress
  stopWait,    \* stop_recording calls sleeping in their grace wait, each with its
               \* session, its path and the callback invocations that preceded it
  last,        \* result of the control-surface call that returned last
  tally,       \* start_recording calls that returned Ok / AlreadyRecording
  clock,       \* SystemTime::now() in whole seconds
  nSessions,   \* encoder threads spawned so far
  enc,         \* per session: encoder thread and its WavWriter
  encChan,     \* per session: queue of the AudioSample channel
  encSenders,  \* per session: live Sender<AudioSample> handles
  sent,        \* per session: every message accepted by the AudioSample channel
  res,         \* per session: resampler worker
  cbChan,      \* per session: queue of the Vec<i16> channel (block lengths)
  stream,      \* per session: cpal input stream
  files,       \* file system: one entry per path
  fed,         \* capture callback invocations so far
  budget,      \* the calls, sessions and callback invocations of this run
  bench        \* a resampler worker run on its own, on sample values

vars == <<state, lock, startCtx, stopWait, last, tally, clock, nSessions, enc, encChan,
          encSenders, sent, res, cbChan, stream, files, fed, budget, bench>>

envVars == <<clock, budget, bench>>
ctlVars == <<state, lock, startCtx, stopWait>>
retVars == <<last, tally>>
pipeVars == <<enc, encChan, encSenders, sent, res, cbChan, stream, files, fed>>

Max(a, b) == IF a >= b THEN a ELSE b

(* ---- data ------------------------------------------------------------- *)
\* Option<T> is a set with at most one element
NoneOpt == {}
Some(x) == {x}
TheOne(S) == CHOOSE x \in S : TRUE

RecordingStateNew ==
  [is_recording |-> FALSE, output_path |-> NoneOpt, sample_rate |-> NoneOpt,
   channels |-> NoneOpt, sample_tx |-> NoneOpt]

DataMsg(id) == [kind |-> "Data", id |-> id]
StopMsg == [kind |-> "Stop", id |-> 0]

NoFile == [exists |-> FALSE, len |-> 0, riff |-> 0, data |-> 0]

EncoderIdle ==
  [pc |-> "unspawned", path |-> 0, duration |-> 0, max_frames |-> 0,
   sample_buffer |-> <<>>,
   frames_written |-> 0, data_size |-> 0, buf |-> 0, pos |-> 0,
   written |-> <<>>, exit |-> "none", finalized |-> FALSE]

ResamplerIdle ==
  [pc |-> "unspawned", rate |-> TELEGRAM_SAMPLE_RATE, input_buffer |-> 0,
   output_buffer |-> 0, src_idx |-> 0, frames_sent |-> 0]

NoStart == [sid |-> 0, fmt |-> "I16", rate |-> TELEGRAM_SAMPLE_RATE]

\* locals of the resampler thread at its start (lines 311-313), with the
\* samples received and pushed so far
ResamplerStart(rate) ==
  [rate |-> rate, input_buffer |-> <<>>, output_buffer |-> <<>>, src_idx |-> 0,
   received |-> <<>>, pushed |-> <<>>]

\* the n-th call to return, what it was and what it returned
Result(n, op, r, sid, path) ==
  [n |-> n, op |-> op, res |-> r, sid |-> sid, path |-> path]

Init ==
  /\ state = RecordingStateNew
  /\ lock = "free"
  /\ startCtx = NoStart
  /\ stopWait = {}
  /\ last = Result(0, "none", "none", 0, NoneOpt)
  /\ tally = [ok |-> 0, rejected |-> 0]
  /\ clock = 0
  /\ nSessions = 0
  /\ enc = [s \in Sessions |-> EncoderIdle]
  /\ encChan = [s \in Sessions |-> <<>>]
  /\ encSenders = [s \in Sessions |-> {}]
  /\ sent = [s \in Sessions |-> <<>>]
  /\ res = [s \in Sessions |-> ResamplerIdle]
  /\ cbChan = [s \in Sessions |-> <<>>]
  /\ stream = [s \in Sessions |-> "none"]
  /\ files = [p \in Paths |-> NoFile]
  /\ fed = 0
  /\ budget \in Budgets
  /\ bench = ResamplerStart(TELEGRAM_SAMPLE_RATE)

\* calls issued so far: returned, in start_recording, or in stop's grace wait
CallsBegun == last.n + (IF lock = "start" THEN 1 ELSE 0) + Cardinality(stopWait)

\* a call returns r
Return(op, r, sid, path) ==
  /\ last' = Result(last.n + 1, op, r, sid, path)
  /\ tally' = IF op = "start" /\ r = "Ok" THEN [tally EXCEPT !.ok = @ + 1]
              ELSE IF op = "start" /\ r = "AlreadyRecording"
              THEN [tally EXCEPT !.rejected = @ + 1]
              ELSE tally

(* ---- channels --------------------------------------------------------- *)
\* the Receiver<AudioSample> lives in the encoder thread until it returns or
\* panics
EncReceiverAlive(s) == enc[s].pc \in {"spawned", "loop"}

\* the Receiver<Vec<i16>> lives in the resampler thread
ResReceiverAlive(s) == res[s].pc = "run"

\* mpsc::Sender::send: appends unless the receiver is gone
ChanSend(q, alive, m) == IF alive THEN Append(q, m) ELSE q

(* ---- clock ------------------------------------------------------------ *)
Tick ==
  /\ clock < MaxClock
  /\ clock' = clock + 1
  /\ UNCHANGED <<budget, bench, ctlVars, retVars, nSessions, pipeVars>>

(* ---- Session Controller: start_recording ------------------------------- *)
\* usize arithmetic of line 193
MaxFrames(max_duration_seconds) ==
  (TELEGRAM_SAMPLE_RATE * max_duration_seconds) \div FRAME_SIZE_SAMPLES

\* faulty variant: the is_recording check comes after the encoder thread has
\* been spawned
StartAlreadyRecording_AfterSpawn ==
  /\ CallsBegun < budget.calls
  /\ lock = "free"
  /\ state.is_recording
  /\ nSessions < budget.sessions
  /\ nSessions' = nSessions + 1
  /\ enc' = [enc EXCEPT ![nSessions + 1] = [EncoderIdle EXCEPT !.pc = "spawned",
                                                              !.path = clock]]
  /\ Return("start", "AlreadyRecording", 0, NoneOpt)
  /\ UNCHANGED <<ctlVars, envVars, encChan, encSenders, sent, res, cbChan, stream,
                 files, fed>>

\* lines 151-158: lock, is_recording already set
StartAlreadyRecording ==
  /\ CallsBegun < budget.calls
  /\ lock = "free"
  /\ state.is_recording
  /\ Return("start", "AlreadyRecording", 0, NoneOpt)
  /\ UNCHANGED <<ctlVars, envVars, nSessions, pipeVars>>

\* lines 160-173: no default input device, no default input config, or the
\* output directory cannot be created; nothing has been spawned yet
StartEarlyError(err) ==
  /\ CallsBegun < budget.calls
  /\ lock = "free"
  /\ ~state.is_recording
  /\ Return("start", err, 0, NoneOpt)
  /\ UNCHANGED <<ctlVars, envVars, nSessions, pipeVars>>

\* faulty variant: is_recording is not checked
StartSpawn_NoCheck(fmt, rate, max_duration_seconds) ==
  /\ CallsBegun < budget.calls
  /\ lock = "free"
  /\ nSessions < budget.sessions
  /\ LET s == nSessions + 1 IN
     /\ nSessions' = s
     /\ enc' = [enc EXCEPT ![s] = [EncoderIdle EXCEPT !.pc = "spawned",
                                     !.path = clock,
                                     !.duration = max_duration_seconds,
                                     !.max_frames = MaxFrames(max_duration_seconds)]]
     /\ encSenders' = [encSenders EXCEPT ![s] = {"ctl"}]
     /\ startCtx' = [sid |-> s, fmt |-> fmt, rate |-> rate]
  /\ lock' = "start"
  /\ UNCHANGED <<state, stopWait, retVars, envVars, encChan, sent, res, cbChan,
                 stream, files, fed>>

\* lines 151-197: the checks pass, the file name is derived from the clock,
\* the AudioSample channel is created and the encoder thread is spawned.  The
\* mutex stays held.
StartSpawn(fmt, rate, max_duration_seconds) ==
  /\ CallsBegun < budget.calls
  /\ lock = "free"
  /\ ~state.is_recording
  /\ nSessions < budget.sessions
  /\ LET s == nSessions + 1 IN
     /\ nSessions' = s
     /\ enc' = [enc EXCEPT ![s] = [EncoderIdle EXCEPT !.pc = "spawned",
                                     !.path = clock,
                                     !.duration = max_duration_seconds,
                                     !.max_frames = MaxFrames(max_duration_seconds)]]
     /\ encSenders' = [encSenders EXCEPT ![s] = {"ctl"}]
     /\ startCtx' = [sid |-> s, fmt |-> fmt, rate |-> rate]
  /\ lock' = "start"
  /\ UNCHANGED <<state, stopWait, retVars, envVars, encChan, sent, res, cbChan,
                 stream, files, fed>>

\* lines 208-211: neither I16 nor F32; Stop is sent and both senders are dropped
StartUnsupported ==
  /\ lock = "start"
  /\ startCtx.fmt \notin {"I16", "F32"}
  /\ LET s == startCtx.sid IN
     /\ encChan' = [encChan EXCEPT ![s] = ChanSend(@, EncReceiverAlive(s), StopMsg)]
     /\ sent' = [sent EXCEPT ![s] = ChanSend(@, EncReceiverAlive(s), StopMsg)]
     /\ encSenders' = [encSenders EXCEPT ![s] = {}]
  /\ Return("start", "UnsupportedFormat", startCtx.sid, NoneOpt)
  /\ lock' = "free"
  /\ startCtx' = NoStart
  /\ UNCHANGED <<state, stopWait, envVars, nSessions, enc, res, cbChan, stream,
                 files, fed>>

\* faulty variant: is_recording is set before the stream is known to run
StartStreamError_Committed(how) ==
  /\ lock = "start"
  /\ startCtx.fmt \in {"I16", "F32"}
  /\ LET s == startCtx.sid IN
     /\ res' = [res EXCEPT ![s] = [ResamplerIdle EXCEPT !.pc = "run",
                                                      !.rate = startCtx.rate]]
     /\ stream' = [stream EXCEPT ![s] = IF how = "play" THEN "dropped" ELSE "none"]
     /\ encSenders' = [encSenders EXCEPT ![s] = {"res"}]
  /\ state' = [state EXCEPT !.is_recording = TRUE]
  /\ Return("start", "StreamError", startCtx.sid, NoneOpt)
  /\ lock' = "free"
  /\ startCtx' = NoStart
  /\ UNCHANGED <<stopWait, envVars, nSessions, enc, encChan, sent, cbChan,
                 files, fed>>

\* lines 199-207 with start_audio_capture failing at build_input_stream or
\* play (lines 395-400): the resampler thread is already running with its
\* Sender clone; tx and the callback closure are dropped, and so is sample_tx
StartStreamError(how) ==
  /\ lock = "start"
  /\ startCtx.fmt \in {"I16", "F32"}
  /\ LET s == startCtx.sid IN
     /\ res' = [res EXCEPT ![s] = [ResamplerIdle EXCEPT !.pc = "run",
                                                      !.rate = startCtx.rate]]
     /\ stream' = [stream EXCEPT ![s] = IF how = "play" THEN "dropped" ELSE "none"]
     /\ encSenders' = [encSenders EXCEPT ![s] = {"res"}]
  /\ Return("start", "StreamError", startCtx.sid, NoneOpt)
  /\ lock' = "free"
  /\ startCtx' = NoStart
  /\ UNCHANGED <<state, stopWait, envVars, nSessions, enc, encChan, sent, cbChan,
                 files, fed>>

\* faulty variant: the Sender is not stored
Commit_NoSender(st, s, path) ==
  [st EXCEPT !.is_recording = TRUE,
             !.output_path = Some(path),
             !.sample_rate = Some(TELEGRAM_SAMPLE_RATE),
             !.channels = Some(TELEGRAM_CHANNELS)]

\* lines 214-219: the new RecordingState
Commit(st, s, path) ==
  [st EXCEPT !.is_recording = TRUE,
             !.output_path = Some(path),
             !.sample_rate = Some(TELEGRAM_SAMPLE_RATE),
             !.channels = Some(TELEGRAM_CHANNELS),
             !.sample_tx = Some(s)]

\* lines 199-225 on success: resampler spawned, stream playing and leaked
\* with mem::forget, state committed, mutex released
StartCommit ==
  /\ lock = "start"
  /\ startCtx.fmt \in {"I16", "F32"}
  /\ LET s == startCtx.sid
         old == state.sample_tx
     IN
     /\ res' = [res EXCEPT ![s] = [ResamplerIdle EXCEPT !.pc = "run",
                                                      !.rate = startCtx.rate]]
     /\ stream' = [stream EXCEPT ![s] = "live"]
     \* assigning state.sample_tx drops the Sender it held before
     /\ encSenders' = [t \in Sessions |->
                         IF t = s THEN {"ctl", "res"}
                         ELSE IF t \in old THEN encSenders[t] \ {"ctl"}
                         ELSE encSenders[t]]
     /\ state' = Commit(state, s, enc[s].path)
     /\ Return("start", "Ok", s, Some(enc[s].path))
  /\ lock' = "free"
  /\ startCtx' = NoStart
  /\ UNCHANGED <<stopWait, envVars, nSessions, enc, encChan, sent, cbChan, files, fed>>

(* ---- Session Controller: stop_recording -------------------------------- *)
\* lines 410-417
StopNotRecording ==
  /\ CallsBegun < budget.calls
  /\ lock = "free"
  /\ ~state.is_recording
  /\ Return("stop", "NotRecording", 0, NoneOpt)
  /\ UNCHANGED <<ctlVars, envVars, nSessions, pipeVars>>

\* lines 419-435: flag cleared, Stop sent, Sender dropped, mutex released;
\* the call then sleeps
StopBegin ==
  /\ CallsBegun < budget.calls
  /\ lock = "free"
  /\ state.is_recording
  /\ encChan' = [s \in Sessions |->
                   IF s \in state.sample_tx
                   THEN ChanSend(encChan[s], EncReceiverAlive(s), StopMsg)
                   ELSE encChan[s]]
  /\ sent' = [s \in Sessions |->
                IF s \in state.sample_tx
                THEN ChanSend(sent[s], EncReceiverAlive(s), StopMsg)
                ELSE sent[s]]
  /\ IF state.output_path = NoneOpt
     THEN \* line 428: "No recording in progress", returned before line 432
          /\ state' = [state EXCEPT !.is_recording = FALSE]
          /\ Return("stop", "NoRecordingInProgress", 0, NoneOpt)
          /\ UNCHANGED <<stopWait, encSenders>>
     ELSE /\ state' = [state EXCEPT !.is_recording = FALSE, !.sample_tx = NoneOpt]
          /\ encSenders' = [s \in Sessions |->
                              IF s \in state.sample_tx
                              THEN encSenders[s] \ {"ctl"}
                              ELSE encSenders[s]]
          /\ stopWait' = stopWait \cup
                 {[sid |-> IF state.sample_tx = NoneOpt THEN 0
                           ELSE TheOne(state.sample_tx),
                   path |-> TheOne(state.output_path),
                   fed |-> fed]}
          /\ UNCHANGED retVars
  /\ UNCHANGED <<lock, startCtx, envVars, nSessions, enc, res, cbChan, stream,
                 files, fed>>

\* lines 436-451: after the sleep, the file is looked up by path
StopVerdict(f) ==
  IF ~f.exists THEN "FileNotFound"
  ELSE IF f.len < MinFileLen THEN "FileTooSmall"
  ELSE "Ok"

StopVerify(w) ==
  /\ w \in stopWait
  /\ stopWait' = stopWait \ {w}
  /\ Return("stop", StopVerdict(files[w.path]), w.sid, Some(w.path))
  /\ UNCHANGED <<state, lock, startCtx, envVars, nSessions, pipeVars>>

(* ---- Session Controller: get_recording_status -------------------------- *)
\* lines 455-465
Status ==
  /\ CallsBegun < budget.calls
  /\ lock = "free"
  /\ Return("status", IF state.is_recording THEN "true" ELSE "false", 0,
            state.output_path)
  /\ UNCHANGED <<ctlVars, envVars, nSessions, pipeVars>>

(* ---- WavWriter -------------------------------------------------------- *)
\* outcome of the file I/O a handler performs: all of it succeeds, the first
\* system call fails, or (in finish) the flush succeeds and the header patch
\* fails
IoOutcomes == {"ok", "fail", "fail_patch"}

\* a write of k bytes at offset pos through the writer's own file handle; a
\* write that starts at offset 0 carries the 44 header bytes with their zero
\* size fields
FileWriteAt(f, pos, k) ==
  [f EXCEPT !.len = Max(@, pos + k),
            !.riff = IF pos = 0 /\ k > 0 THEN 0 ELSE @,
            !.data = IF pos = 0 /\ k > 0 THEN 0 ELSE @]

\* std::fs::File::create: creates or truncates
FileCreate == [exists |-> TRUE, len |-> 0, riff |-> 0, data |-> 0]

\* BufWriter::write_all called once per i16 for n bytes in total.  Every
\* write is 2 or 4 bytes and the capacity is even, so the buffer fills to
\* exactly BufCapacity and the next write flushes all of it.
BufWrite(buf, n) ==
  IF buf + n > BufCapacity
  THEN [buf |-> buf + n - BufCapacity, flushed |-> BufCapacity]
  ELSE [buf |-> buf + n, flushed |-> 0]

\* WavWriter::write_samples (lines 119-125) for nsamples samples
write_samples(e, f, nsamples, io) ==
  LET bw == BufWrite(e.buf, nsamples * 2) IN
  IF bw.flushed > 0 /\ io = "fail"
  THEN [ok |-> FALSE, e |-> e, f |-> f]
  ELSE [ok |-> TRUE,
        e |-> [e EXCEPT !.buf = bw.buf,
                        !.pos = @ + bw.flushed,
                        !.data_size = @ + nsamples * 2],
        f |-> IF bw.flushed > 0 THEN FileWriteAt(f, e.pos, bw.flushed) ELSE f]

\* the two header patches of finish (lines 132-139)
PatchHeader(f, data_size) ==
  [f EXCEPT !.len = Max(@, WavHeaderLen),
            !.data = data_size,
            !.riff = data_size + RiffExtra]

\* WavWriter::finish (lines 127-143): into_inner flushes the buffer, then the
\* size fields are patched at offsets 40 and 4
finish(e, f, io) ==
  IF io = "fail" THEN [ok |-> FALSE, f |-> f]
  ELSE LET flushed == FileWriteAt(f, e.pos, e.buf) IN
       IF io = "fail_patch" THEN [ok |-> FALSE, f |-> flushed]
       ELSE [ok |-> TRUE, f |-> PatchHeader(flushed, e.data_size)]

(* ---- Frame Encoder/Writer: encoder_thread ------------------------------ *)
\* faulty variant: at the duration cap the thread finishes the file and goes
\* on receiving
EncoderExit_CapGoesOn(e, how, finished) ==
  [e EXCEPT !.pc = IF how \in {"panic_create", "panic_write", "panic_finish"}
                   THEN "panicked"
                   ELSE IF how = "cap" THEN "loop" ELSE "closed",
            !.exit = how,
            !.finalized = finished,
            !.sample_buffer = <<>>,
            !.buf = IF finished THEN 0 ELSE @]

\* the thread has returned or panicked: locals and the Receiver are gone
EncoderExit(e, how, finished) ==
  [e EXCEPT !.pc = IF how \in {"panic_create", "panic_write", "panic_finish"}
                   THEN "panicked" ELSE "closed",
            !.exit = how,
            !.finalized = finished,
            !.sample_buffer = <<>>,
            !.buf = IF finished THEN 0 ELSE @]

\* lines 236-238: WavWriter::new(...).expect(...)
EncoderCreate(s, io) ==
  /\ enc[s].pc = "spawned"
  /\ IF io = "fail"
     THEN /\ enc' = [enc EXCEPT ![s] = EncoderExit(@, "panic_create", FALSE)]
          /\ encChan' = [encChan EXCEPT ![s] = <<>>]
          /\ files' = files
     ELSE /\ enc' = [enc EXCEPT ![s] = [@ EXCEPT !.pc = "loop",
                                                 !.buf = WavHeaderLen,
                                                 !.pos = 0,
                                                 !.data_size = 0]]
          /\ files' = [files EXCEPT ![enc[s].path] = FileCreate]
          /\ encChan' = encChan
  /\ UNCHANGED <<ctlVars, retVars, envVars, nSessions, encSenders, sent, res, cbChan,
                 stream, fed>>

\* lines 251-265: the loop that writes complete frames.  sample_buffer holds
\* whole frames (every Data message carries FRAME_SIZE_SAMPLES samples), so
\* sample_buffer.len() is Len(e.sample_buffer) * FRAME_SIZE_SAMPLES.
RECURSIVE WriteCompleteFrames(_, _, _)
\* faulty variant: the cap test is > where the source has >=
WriteCompleteFrames_OffByOne(e, f, io) ==
  IF Len(e.sample_buffer) * FRAME_SIZE_SAMPLES >= FRAME_SIZE_SAMPLES
  THEN IF e.frames_written > e.max_frames
       THEN LET fin == finish(e, f, io) IN
            [e |-> EncoderExit(e, "cap", fin.ok), f |-> fin.f]
       ELSE LET w == write_samples(e, f, FRAME_SIZE_SAMPLES, io) IN
            IF ~w.ok
            THEN [e |-> EncoderExit(e, "panic_write", FALSE), f |-> f]
            ELSE WriteCompleteFrames(
                   [w.e EXCEPT !.sample_buffer = Tail(@),
                               !.written = Append(@, Head(e.sample_buffer)),
                               !.frames_written = @ + 1],
                   w.f, io)
  ELSE [e |-> e, f |-> f]

WriteCompleteFrames(e, f, io) ==
  IF Len(e.sample_buffer) * FRAME_SIZE_SAMPLES >= FRAME_SIZE_SAMPLES
  THEN IF e.frames_written >= e.max_frames
       THEN \* line 254: writer.finish().ok(); return
            LET fin == finish(e, f, io) IN
            [e |-> EncoderExit(e, "cap", fin.ok), f |-> fin.f]
       ELSE LET w == write_samples(e, f, FRAME_SIZE_SAMPLES, io) IN
            IF ~w.ok
            THEN [e |-> EncoderExit(e, "panic_write", FALSE), f |-> f]
            ELSE WriteCompleteFrames(
                   [w.e EXCEPT !.sample_buffer = Tail(@),
                               !.written = Append(@, Head(e.sample_buffer)),
                               !.frames_written = @ + 1],
                   w.f, io)
  ELSE [e |-> e, f |-> f]

\* lines 276-289: flush what is left, padded to one frame, then finish
FlushAndFinalize(e, f, how, io) ==
  LET w == IF e.sample_buffer # <<>>
           THEN write_samples(e, f, Max(Len(e.sample_buffer) * FRAME_SIZE_SAMPLES,
                                        FRAME_SIZE_SAMPLES), io)
           ELSE [ok |-> TRUE, e |-> e, f |-> f]
      fin == finish(w.e, w.f, io)
  IN  IF fin.ok
      THEN [e |-> EncoderExit([w.e EXCEPT !.written =
                                  @ \o (IF w.ok THEN e.sample_buffer ELSE <<>>)],
                              how, TRUE),
            f |-> fin.f]
      ELSE [e |-> EncoderExit(w.e, "panic_finish", FALSE), f |-> fin.f]

\* what recv_timeout returns: the head of the queue, or Disconnected when
\* the queue is empty and every Sender is gone.  Timeout changes nothing.
EncoderCanRecv(s) == encChan[s] # <<>> \/ encSenders[s] = {}

\* faulty variant: Stop does not end the loop
EncoderHandle_IgnoreStop(e, f, q, io) ==
  IF q # <<>> /\ Head(q).kind = "Data"
  THEN WriteCompleteFrames([e EXCEPT !.sample_buffer = Append(@, Head(q).id)], f, io)
  ELSE IF q # <<>>
  THEN [e |-> e, f |-> f]
  ELSE FlushAndFinalize(e, f, "disconnected", io)

\* lines 245-289: one recv_timeout and the handling of what it returned
EncoderHandle(e, f, q, io) ==
  IF q # <<>> /\ Head(q).kind = "Data"
  THEN WriteCompleteFrames([e EXCEPT !.sample_buffer = Append(@, Head(q).id)], f, io)
  ELSE IF q # <<>>
  THEN FlushAndFinalize(e, f, "stop", io)
  ELSE FlushAndFinalize(e, f, "disconnected", io)

EncoderRecv(s, io) ==
  /\ enc[s].pc = "loop"
  /\ EncoderCanRecv(s)
  /\ \E r \in {EncoderHandle(enc[s], files[enc[s].path], encChan[s], io)} :
     /\ enc' = [enc EXCEPT ![s] = r.e]
     /\ files' = [files EXCEPT ![enc[s].path] = r.f]
     /\ encChan' = [encChan EXCEPT ![s] = IF r.e.pc = "loop" THEN Tail(@) ELSE <<>>]
  /\ UNCHANGED <<ctlVars, retVars, envVars, nSessions, encSenders, sent, res, cbChan,
                 stream, fed>>

(* ---- Normalizer/Resampler: the worker of start_audio_capture ----------- *)
RECURSIVE GCD(_, _)
GCD(a, b) == IF b = 0 THEN a ELSE GCD(b, a % b)

\* resample_ratio.recip() = device_sample_rate / target_sample_rate as the
\* fraction RateNum / RateDen; src_idx is kept as a multiple of 1 / RateDen
RateNum(rate) == rate \div GCD(rate, TELEGRAM_SAMPLE_RATE)
RateDen(rate) == TELEGRAM_SAMPLE_RATE \div GCD(rate, TELEGRAM_SAMPLE_RATE)

\* line 321
ResampleCond(st) == st.inlen >= 2 /\ st.outlen < FRAME_SIZE_SAMPLES * 2

\* lines 322-336: one pass of the loop body, on buffer lengths
ResampleBody(st) ==
  LET src1 == st.src + st.p
      idx0 == src1 \div st.q
      push == idx0 < st.inlen
      drain == idx0 >= 1
  IN  [st EXCEPT !.outlen = IF push THEN @ + 1 ELSE @,
                 !.inlen = IF drain THEN @ - 1 ELSE @,
                 !.src = IF drain THEN src1 - st.q ELSE src1]

\* the while loop of line 321 run for at most k passes
RECURSIVE ResampleLoop(_, _)
ResampleLoop(k, st) ==
  IF k = 0 \/ ~ResampleCond(st) THEN st
  ELSE IF k = 1 THEN ResampleBody(st)
  ELSE LET mid == ResampleLoop(k - (k \div 2), st) IN
       IF ResampleCond(mid) THEN ResampleLoop(k \div 2, mid) ELSE mid

\* every pass pushes a sample or drains one, so the loop ends within
\* inlen + 2 * FRAME_SIZE_SAMPLES passes
Resample(inlen, outlen, src, rate) ==
  ResampleLoop(inlen + 2 * FRAME_SIZE_SAMPLES,
               [inlen |-> inlen, outlen |-> outlen, src |-> src,
                p |-> RateNum(rate), q |-> RateDen(rate)])

\* Resample tabulated once on the arguments a worker reaches when it is fed
\* MaxBlocks blocks of BlockSamples samples from a fresh start; a table so
\* that the loop is not re-run in every state that enables the worker
RECURSIVE ResampleRun(_, _, _, _, _)
ResampleRun(k, inlen, outlen, src, rate) ==
  IF k = 0 THEN <<>>
  ELSE LET st == Resample(inlen + BlockSamples, outlen, src, rate) IN
       <<[inlen |-> inlen + BlockSamples, outlen |-> outlen, src |-> src,
          rate |-> rate, st |-> st]>>
       \o ResampleRun(k - 1, st.inlen, st.outlen % FRAME_SIZE_SAMPLES, st.src, rate)

RECURSIVE ResampleRuns(_, _)
ResampleRuns(k, rates) ==
  IF rates = {} THEN <<>>
  ELSE LET rate == CHOOSE r \in rates : TRUE IN
       ResampleRun(k, 0, 0, 0, rate) \o ResampleRuns(k, rates \ {rate})

ResampleTable == ResampleRuns(Max(MaxBlocks, LongBlocks), DeviceRates)

\* Resample(inlen, outlen, src, rate), looked up when tabulated
ResampleAt(inlen, outlen, src, rate) ==
  LET hit == {i \in 1..Len(ResampleTable) :
                /\ ResampleTable[i].inlen = inlen /\ ResampleTable[i].outlen = outlen
                /\ ResampleTable[i].src = src /\ ResampleTable[i].rate = rate}
  IN  IF hit # {} THEN ResampleTable[CHOOSE i \in hit : TRUE].st
      ELSE Resample(inlen, outlen, src, rate)

\* Data messages waiting in a queue of the AudioSample channel
DataWaiting(q) == Len(SelectSeq(q, LAMBDA m : m.kind = "Data"))

\* ids of the frames sent by lines 340-345
FrameIds(first, k) == [i \in 1..k |-> DataMsg(first + i)]

\* lines 316-346: a block of n samples is received and resampled, and the
\* complete frames are sent; a failed send ends the thread (line 343)
ResamplerHandle(r, n, receiverAlive) ==
  LET st == ResampleAt(r.input_buffer + n, r.output_buffer, r.src_idx, r.rate)
      k == st.outlen \div FRAME_SIZE_SAMPLES
  IN  IF k >= 1 /\ ~receiverAlive
      THEN [r |-> [ResamplerIdle EXCEPT !.pc = "done", !.rate = r.rate,
                                        !.frames_sent = r.frames_sent],
            frames |-> <<>>]
      ELSE [r |-> [r EXCEPT !.input_buffer = st.inlen,
                            !.output_buffer = st.outlen - k * FRAME_SIZE_SAMPLES,
                            !.src_idx = st.src,
                            !.frames_sent = @ + k],
            frames |-> FrameIds(r.frames_sent, k)]

ResamplerRecv(s) ==
  /\ res[s].pc = "run"
  /\ cbChan[s] # <<>>
  /\ DataWaiting(encChan[s]) < MaxQueue
  /\ \E h \in {ResamplerHandle(res[s], Head(cbChan[s]), EncReceiverAlive(s))} :
     /\ res' = [res EXCEPT ![s] = h.r]
     /\ encChan' = [encChan EXCEPT ![s] = @ \o h.frames]
     /\ sent' = [sent EXCEPT ![s] = @ \o h.frames]
     /\ encSenders' = [encSenders EXCEPT ![s] = IF h.r.pc = "done" THEN @ \ {"res"} ELSE @]
     /\ cbChan' = [cbChan EXCEPT ![s] = IF h.r.pc = "done" THEN <<>> ELSE Tail(@)]
  /\ UNCHANGED <<ctlVars, retVars, envVars, nSessions, enc, stream, files, fed>>

\* lines 347-349: the block channel is empty and its Senders are gone
ResamplerDisconnected(s) ==
  /\ res[s].pc = "run"
  /\ cbChan[s] = <<>>
  /\ stream[s] # "live"
  /\ res' = [res EXCEPT ![s] = [ResamplerIdle EXCEPT !.pc = "done",
                                   !.rate = res[s].rate,
                                   !.frames_sent = res[s].frames_sent]]
  /\ encSenders' = [encSenders EXCEPT ![s] = @ \ {"res"}]
  /\ UNCHANGED <<ctlVars, retVars, envVars, nSessions, enc, encChan, sent, cbChan,
                 stream, files, fed>>

(* ---- Capture Source: data_callback -------------------------------------- *)
\* lines 363-387: one driver invocation delivers BlockSamples mono samples;
\* the send result is ignored
Callback(s) ==
  /\ stream[s] = "live"
  /\ fed < budget.blocks
  /\ Len(cbChan[s]) < MaxQueue
  /\ IF ResReceiverAlive(s)
     THEN /\ cbChan' = [cbChan EXCEPT ![s] = Append(@, BlockSamples)]
          /\ fed' = fed + 1
     ELSE UNCHANGED <<cbChan, fed>>
  /\ UNCHANGED <<ctlVars, retVars, envVars, nSessions, enc, encChan, encSenders,
                 sent, res, stream, files>>

(* ---- the resampler loop on sample values --------------------------------- *)
\* i64 division truncates toward zero
TruncDiv(a, b) == IF a >= 0 THEN a \div b ELSE -((-a) \div b)

\* lines 322-336: one pass of the loop body.  src_idx is kept as a multiple
\* of 1 / RateDen(rate); sequences are indexed from 1 where the source
\* indexes from 0.
ResampleSamplesBody(b) ==
  LET p == RateNum(b.rate)
      q == RateDen(b.rate)
      src1 == b.src_idx + p
      idx0 == src1 \div q
      idx1 == IF idx0 + 1 <= Len(b.input_buffer) - 1 THEN idx0 + 1
              ELSE Len(b.input_buffer) - 1
      frac == ((src1 % q) * 1024) \div q
      push == idx0 < Len(b.input_buffer)
      sample == TruncDiv(b.input_buffer[idx0 + 1] * (1024 - frac)
                         + b.input_buffer[idx1 + 1] * frac, 1024)
      drain == idx0 >= 1
  IN  [b EXCEPT !.output_buffer = IF push THEN Append(@, sample) ELSE @,
                !.pushed = IF push THEN Append(@, sample) ELSE @,
                !.input_buffer = IF drain THEN Tail(@) ELSE @,
                !.src_idx = IF drain THEN src1 - q ELSE src1]

\* the while loop of line 321
RECURSIVE ResampleSamples(_)
ResampleSamples(b) ==
  IF Len(b.input_buffer) >= 2 /\ Len(b.output_buffer) < FRAME_SIZE_SAMPLES * 2
  THEN ResampleSamples(ResampleSamplesBody(b))
  ELSE b

\* lines 339-345: complete frames leave output_buffer
RECURSIVE SendFrames(_)
SendFrames(b) ==
  IF Len(b.output_buffer) >= FRAME_SIZE_SAMPLES
  THEN SendFrames([b EXCEPT !.output_buffer =
                     SubSeq(@, FRAME_SIZE_SAMPLES + 1, Len(@))])
  ELSE b

\* blocks a callback may deliver to the resampler run on its own
BenchBlocks == UNION {[1..n -> BenchValues] : n \in 1..MaxBenchBlock}

\* lines 316-346 for one received block
BenchFeed(block) ==
  /\ Len(bench.received) + Len(block) <= MaxBenchInput
  /\ bench' = SendFrames(ResampleSamples(
                 [bench EXCEPT !.input_buffer = @ \o block,
                               !.received = @ \o block]))
  /\ UNCHANGED <<clock, budget, ctlVars, retVars, nSessions, pipeVars>>

InitBench ==
  /\ state = RecordingStateNew
  /\ lock = "free"
  /\ startCtx = NoStart
  /\ stopWait = {}
  /\ last = Result(0, "none", "none", 0, NoneOpt)
  /\ tally = [ok |-> 0, rejected |-> 0]
  /\ clock = 0
  /\ nSessions = 0
  /\ enc = [s \in Sessions |-> EncoderIdle]
  /\ encChan = [s \in Sessions |-> <<>>]
  /\ encSenders = [s \in Sessions |-> {}]
  /\ sent = [s \in Sessions |-> <<>>]
  /\ res = [s \in Sessions |-> ResamplerIdle]
  /\ cbChan = [s \in Sessions |-> <<>>]
  /\ stream = [s \in Sessions |-> "none"]
  /\ files = [p \in Paths |-> NoFile]
  /\ fed = 0
  /\ budget = [calls |-> 0, sessions |-> 0, blocks |-> 0]
  /\ \E rate \in BenchRates : bench = ResamplerStart(rate)

NextBench == \E block \in BenchBlocks : BenchFeed(block)

SpecBench == InitBench /\ [][NextBench]_vars

(* ---- specification ------------------------------------------------------ *)
Next ==
  \/ Tick
  \/ StartAlreadyRecording
  \/ \E err \in {"NoInputDevice", "ConfigError", "IoError"} : StartEarlyError(err)
  \/ \E fmt \in Formats, rate \in DeviceRates, d \in 0..MaxDuration :
       StartSpawn(fmt, rate, d)
  \/ StartUnsupported
  \/ \E how \in {"build", "play"} : StartStreamError(how)
  \/ StartCommit
  \/ StopNotRecording
  \/ StopBegin
  \/ \E w \in stopWait : StopVerify(w)
  \/ Status
  \/ \E s \in Sessions, io \in IoOutcomes : EncoderCreate(s, io)
  \/ \E s \in Sessions, io \in IoOutcomes : EncoderRecv(s, io)
  \/ \E s \in Sessions : ResamplerRecv(s)
  \/ \E s \in Sessions : ResamplerDisconnected(s)
  \/ \E s \in Sessions : Callback(s)

Spec == Init /\ [][Next]_vars

\* a start_recording call that holds the mutex runs to its return
StartFinish ==
  \/ StartUnsupported
  \/ \E how \in {"build", "play"} : StartStreamError(how)
  \/ StartCommit

\* Threads and calls in progress keep running: a start_recording call past
\* its spawn returns, a stop_recording call wakes from its sleep, and the
\* encoder and resampler threads are scheduled (their recv_timeout returns
\* within 100 ms).  Nothing obliges a caller to call or the audio device to
\* deliver a block.
Fairness ==
  /\ WF_vars(StartFinish)
  /\ WF_vars(\E w \in stopWait : StopVerify(w))
  /\ \A s \in Sessions :
       /\ WF_vars(\E io \in IoOutcomes : EncoderCreate(s, io))
       /\ WF_vars(\E io \in IoOutcomes : EncoderRecv(s, io))
       /\ WF_vars(ResamplerRecv(s))
       /\ WF_vars(ResamplerDisconnected(s))

\* a run of one session at most
InitLive ==
  /\ Init
  /\ budget.sessions = MaxSessions - 1

SpecLive == InitLive /\ [][Next]_vars /\ Fairness

(* ---- properties ---------------------------------------------------------- *)
\* a call returns in this step
Returns == last'.n = last.n + 1
\* a start_recording call takes a step: it acquires the mutex or it returns
StartStep == lock' = "start" \/ (Returns /\ last'.op = "start")
\* the session whose Sender the state holds
Current == state.sample_tx

\* C1: whenever is_recording is set, output_path, sample_rate, channels and
\* the Sender (sample_tx) are all present.
C1_RecordingHasAllFields ==
  state.is_recording =>
    /\ state.output_path # NoneOpt
    /\ state.sample_rate # NoneOpt
    /\ state.channels # NoneOpt
    /\ state.sample_tx # NoneOpt

\* a second session is recording after the first one was stopped
C1_Witness ==
  /\ state.is_recording
  /\ tally.ok = 2
  /\ state.sample_tx = Some(2)

\* C2: when the first two calls of a run are start() calls that meet a usable
\* device, exactly one returns Ok and the other AlreadyRecording; and a stop()
\* that returns before any start() has succeeded returns NotRecording.
C2_TwoStartsOneStop ==
  /\ (last.n = 2 /\ CallsBegun = 2 /\ tally.ok + tally.rejected = 2)
       => (tally.ok = 1 /\ tally.rejected = 1)
  /\ (last.op = "stop" /\ tally.ok = 0) => last.res = "NotRecording"

C2_Witness ==
  /\ last.n = 2
  /\ CallsBegun = 2
  /\ tally.ok = 1
  /\ tally.rejected = 1

\* C3: a start() step taken while is_recording is set is the return of
\* AlreadyRecording, and it changes nothing: not the session state, no
\* thread, channel, sender, stream or file.
C3_RejectedStartHasNoEffect ==
  [][(state.is_recording /\ lock = "free" /\ StartStep)
       => /\ Returns
          /\ last'.res = "AlreadyRecording"
          /\ UNCHANGED <<state, lock, startCtx, stopWait, envVars, nSessions,
                         enc, encChan, encSenders, sent, res, cbChan, stream,
                         files, fed>>]_vars

\* a start() was rejected while the session's encoder was still writing
C3_Witness ==
  /\ last.op = "start"
  /\ last.res = "AlreadyRecording"
  /\ \E s \in Current : enc[s].pc = "loop" /\ enc[s].frames_written >= 1

\* the file of encoder e holds exactly what e wrote, with both size fields
\* patched to it
FileMatches(e, f) ==
  /\ f.exists
  /\ f.data = e.data_size
  /\ f.riff = e.data_size + RiffExtra
  /\ f.len = e.data_size + WavHeaderLen

\* session s alone was given its output path
OwnsPath(s) ==
  \A t \in Sessions \ {s} : enc[t].pc # "unspawned" => enc[t].path # enc[s].path

\* C4: at the step where stop() returns Ok for a session that shares its file
\* with no other and whose encoder met no I/O error, that encoder has already
\* finished the file: it is closed, everything it accepted is on disk and
\* both size fields match.
C4_StopOkMeansFinalized ==
  [][(/\ Returns /\ last'.op = "stop" /\ last'.res = "Ok" /\ last'.sid \in Sessions
      /\ OwnsPath(last'.sid)
      /\ enc'[last'.sid].pc # "panicked"
      /\ enc'[last'.sid].pc = "closed" => enc'[last'.sid].finalized)
       => /\ enc'[last'.sid].pc = "closed"
          /\ FileMatches(enc'[last'.sid], files'[enc'[last'.sid].path])]_vars

\* C5: when an encoder closes with finish() having succeeded after N frames,
\* the data size field is N * 960 * 2, the RIFF size field is that plus 36 and
\* the file is that plus 44 bytes long.
C5_ClosedFileIsConsistent ==
  [][\A s \in Sessions :
       (enc[s].pc = "loop" /\ enc'[s].pc = "closed" /\ enc'[s].finalized)
         => /\ files'[enc[s].path].data = enc'[s].frames_written * FRAME_SIZE_SAMPLES * 2
            /\ files'[enc[s].path].riff = files'[enc[s].path].data + RiffExtra
            /\ files'[enc[s].path].len = files'[enc[s].path].data + WavHeaderLen]_vars

Ceil(a, b) == (a + b - 1) \div b

\* samples a session started with max_duration_seconds = d may hold at most
CapSamples(d) == Ceil(d * TELEGRAM_SAMPLE_RATE, FRAME_SIZE_SAMPLES) * FRAME_SIZE_SAMPLES

\* C6: the samples an encoder has appended to its file never exceed
\* ceil(D * 48000 / 960) * 960, D being the session's max_duration_seconds,
\* and the file of a session that shares its path with no other is never
\* longer than the header and that many samples.
C6_DurationCap ==
  \A s \in Sessions :
    /\ enc[s].data_size \div 2 <= CapSamples(enc[s].duration)
    /\ (enc[s].pc # "unspawned" /\ OwnsPath(s))
         => files[enc[s].path].len <= WavHeaderLen + 2 * CapSamples(enc[s].duration)

\* a session with D >= 1 was cut at the cap while frames kept arriving
C6_Witness ==
  \E s \in Sessions :
    /\ enc[s].duration >= 1
    /\ enc[s].exit = "cap"
    /\ enc[s].data_size \div 2 = CapSamples(enc[s].duration)
    /\ res[s].frames_sent > enc[s].frames_written

\* C7: once the encoder of the current session has ended at the duration
\* cap, a status() call reports is_recording = false and a start() call is
\* not rejected with AlreadyRecording.
C7_CapEndsSession ==
  [][((\E s \in Current : enc[s].exit = "cap") /\ Returns)
       => /\ ~(last'.op = "status" /\ last'.res = "true")
          /\ ~(last'.op = "start" /\ last'.res = "AlreadyRecording")]_vars

DeviceErrors == {"NoInputDevice", "ConfigError", "UnsupportedFormat", "StreamError"}

\* C8: no step of a start() call that ends in a device or format error
\* changes the session state, and when it returns is_recording is false.
C8_FailedStartCommitsNothing ==
  [][/\ (lock' = "start" \/ lock = "start") /\ ~(Returns /\ last'.res = "Ok")
          => state' = state
     /\ (Returns /\ last'.op = "start" /\ last'.res \in DeviceErrors)
          => (state' = state /\ ~state'.is_recording)]_vars

\* a start() failed after its workers had been spawned
C8_Witness ==
  /\ last.op = "start"
  /\ last.res = "StreamError"
  /\ enc[last.sid].pc # "unspawned"
  /\ res[last.sid].pc # "unspawned"

\* C9: once the encoder of the current session has ended on a failed file
\* creation or a failed write, a status() call reports is_recording = false
\* and a start() call is not rejected with AlreadyRecording.
C9_IoFailureEndsSession ==
  [][((\E s \in Current : enc[s].exit \in {"panic_create", "panic_write"}) /\ Returns)
       => /\ ~(last'.op = "status" /\ last'.res = "true")
          /\ ~(last'.op = "start" /\ last'.res = "AlreadyRecording")]_vars

IsPrefix(a, b) == Len(a) <= Len(b) /\ a = SubSeq(b, 1, Len(a))

\* ids of the Data messages of q that precede its first Stop
RECURSIVE DataBeforeStop(_)
DataBeforeStop(q) ==
  IF q = <<>> \/ Head(q).kind = "Stop" THEN <<>>
  ELSE <<Head(q).id>> \o DataBeforeStop(Tail(q))

\* C10: an encoder writes frames in the order they were enqueued and none
\* enqueued after Stop; when it ends on Stop or on disconnection it has written
\* every frame enqueued before, and when it ends at the cap, max_frames of them.
C10_FifoUntilStop ==
  \A s \in Sessions :
    LET ids == DataBeforeStop(sent[s]) IN
    /\ IsPrefix(enc[s].written, ids)
    /\ enc[s].exit \in {"stop", "disconnected"} => enc[s].written = ids
    /\ enc[s].exit = "cap" => Len(enc[s].written) = enc[s].max_frames

\* an encoder ended on Stop after writing frames, and a frame had been
\* enqueued behind the Stop
C10_Witness ==
  \E s \in Sessions :
    /\ enc[s].exit = "stop"
    /\ enc[s].finalized
    /\ Len(enc[s].written) >= 1
    /\ Len(sent[s]) > Len(enc[s].written) + 1

\* C11: when stop() returns Ok for the only session of a run, whose encoder
\* has finalized below the duration cap, the file holds the samples the
\* capture callback had delivered before stop() was called, within one frame.
C11_DeliveredSamplesKept ==
  [][\A w \in stopWait :
       (/\ Returns /\ last'.op = "stop" /\ last'.res = "Ok" /\ w \notin stopWait'
        /\ nSessions = 1 /\ w.sid = 1
        /\ enc[1].pc = "closed" /\ enc[1].finalized
        /\ enc[1].frames_written < enc[1].max_frames
        /\ FileMatches(enc[1], files[enc[1].path]))
         => LET S == w.fed * BlockSamples
                payload == (files[w.path].len - WavHeaderLen) \div 2
            IN  /\ payload <= S + FRAME_SIZE_SAMPLES
                /\ S <= payload + FRAME_SIZE_SAMPLES]_vars

\* C12: at a native rate equal to the target rate, the samples the resampler
\* has pushed are the samples it received, from the first one on and in
\* order, and every received sample is either pushed or still buffered.
C12_RatioOneIsIdentity ==
  bench.rate = TELEGRAM_SAMPLE_RATE
    => /\ IsPrefix(bench.pushed, bench.received)
       /\ Len(bench.pushed) + Len(bench.input_buffer) = Len(bench.received)

\* C13: at every native rate R, when the loop has run on the blocks received
\* and has consumed n samples of them (all but those it keeps buffered), it
\* has pushed n * 48000 / R samples, give or take one.
C13_OutputCountWithinOne ==
  LET n == Len(bench.received) - Len(bench.input_buffer)
      expected == (n * TELEGRAM_SAMPLE_RATE) \div bench.rate
  IN  /\ Len(bench.pushed) <= expected + 1
      /\ expected <= Len(bench.pushed) + 1

\* C14: every capture stream that is still running belongs to the session
\* that is recording, so at most one is.
C14_StreamReleased ==
  /\ \A s \in Sessions : stream[s] = "live" => (state.is_recording /\ s \in Current)
  /\ Cardinality({s \in Sessions : stream[s] = "live"}) <= 1

\* start_recording is between its thread spawn and its return (device stream
\* setup), or a stop_recording call is asleep in its grace wait
Blocking == startCtx.sid \in Sessions \/ stopWait # {}

\* C15: the session state changes only in a step of the call that holds the
\* mutex, and the mutex is free whenever a call is in a blocking operation,
\* so that a status() call can take it.
C15_LockNotHeldWhileBlocking ==
  /\ [][(state' # state /\ lock = "start")
          => (Returns /\ last'.op = "start" /\ lock' = "free")]_vars
  /\ [](Blocking => lock = "free")

\* the Sender a message of the AudioSample channel was sent through: Data
\* through the clone given to the resampler (line 341), Stop through sample_tx
\* (lines 209 and 422)
SenderOf(m) == IF m.kind = "Data" THEN "res" ELSE "ctl"

\* C16: all messages accepted by the AudioSample channel of a session were
\* sent through one and the same Sender, and no Data message is accepted
\* behind a Stop.
C16_SingleProducer ==
  \A s \in Sessions :
    /\ Cardinality({SenderOf(sent[s][i]) : i \in 1..Len(sent[s])}) <= 1
    /\ \A i, j \in 1..Len(sent[s]) :
         (i < j /\ sent[s][i].kind = "Stop") => sent[s][j].kind # "Data"

\* session s was started successfully: only the commit of start_recording
\* leaves a stream running, and it is never stopped afterwards
Started(s) == stream[s] = "live"

\* C17: no two successfully started sessions have the same output path.
C17_UniquePath ==
  \A s, t \in Sessions :
    (s # t /\ Started(s) /\ Started(t)) => enc[s].path # enc[t].path

\* the steps an encoder thread can take: spawned, file created, loop, and
\* out of the loop by return or panic
EncoderSteps ==
  {<<"unspawned", "spawned">>, <<"spawned", "loop">>, <<"spawned", "panicked">>,
   <<"loop", "loop">>, <<"loop", "closed">>, <<"loop", "panicked">>}

C20_OneEncoderAlive ==
  Cardinality({s \in Sessions : EncReceiverAlive(s)}) <= 1

\* the session of encoder s is over: its start_recording call has returned
\* and it is not the session being recorded
SessionOver(s) ==
  /\ enc[s].pc # "unspawned"
  /\ startCtx.sid # s
  /\ ~(state.is_recording /\ s \in Current)

\* both workers of session s have ended
WorkersEnded(s) ==
  /\ enc[s].pc \in {"closed", "panicked"}
  /\ res[s].pc \in {"unspawned", "done"}

\* C19: once a session is over, its encoder thread and its resampler thread
\* eventually end.
C19_WorkersTerminate ==
  \A s \in Sessions : SessionOver(s) ~> WorkersEnded(s)

====
